---- MODULE Spec2Model ----
(***************************************************************************)
(* Sparse parameter sharing of decentralizepy: GradientAccumulator.train   *)
(* records one gradient snapshot per batch in model.accumulated_gradients; *)
(* PartialModel.extract_top_gradients sums them and picks the top-k flat   *)
(* positions; PartialModel.serialized_model sends the current parameters   *)
(* at those positions; PartialModel.deserialized_model writes a received   *)
(* message into a flat copy of the local state and rebuilds the state.     *)
(*                                                                         *)
(* A tensor is a record [shape, data]: data is the row-major flattening.   *)
(* Flat positions are 0-based as in the code; TLA+ sequences are 1-based,  *)
(* so position i of a flat vector T is T[i + 1].  Numbers stand for float  *)
(* values; integers are used so that sums are exact.                       *)
(***************************************************************************)
EXTENDS Integers, Sequences, FiniteSets, TLC

VARIABLES
    model,                  \* registered tensors of the torch module, in state_dict order
    grad,                   \* .grad of each parameter, in parameters() order (<<>>: none yet)
    has_accumulated,        \* the attribute model.accumulated_gradients exists
    accumulated_gradients,  \* model.accumulated_gradients: a list of dicts
    alpha,                  \* self.alpha, as the numerator of alpha = alpha / AlphaDen
    epochs_per_round,       \* self.epochs_per_round
    trainset,               \* number of batches dataset.get_trainset yields
    pc,                     \* "idle", "train" inside train(), "merged" after deserialized_model
    epoch,                  \* loop variable of train
    count,                  \* batches done in the current epoch
    calls,                  \* extract_top_gradients calls since the list was reset
    inbox,                  \* the message handed to deserialized_model
    ret,                    \* outcome of the last call: [op, err, out]
    issued,                 \* history: p.grad after each backward of the current train call
    arrived                 \* history: per flat position, the value of the last installed update

pvars == <<model, grad, has_accumulated, accumulated_gradients, alpha, epochs_per_round,
           trainset, pc, epoch, count, calls, inbox, ret>>

vars == <<model, grad, has_accumulated, accumulated_gradients, alpha, epochs_per_round,
          trainset, pc, epoch, count, calls, inbox, ret,
          issued, arrived>>

----------------------------------------------------------------------------
(* Bounds of the model *)

\* calls of extract_top_gradients or serialized_model between two train() calls
MaxCalls == 2

\* alpha ranges over 1/AlphaDen .. AlphaDen/AlphaDen; quarters are exact binary floats, so
\* alpha * N is computed without rounding error
AlphaDen == 4

\* longest index list and longest value list of a received message
MaxMsgLen == 2

\* values backward may leave in one element of a gradient
GradValues == {-2, 0, 1}

\* parameter values: the optimizer keeps them in this range
ParamLow == 10
ParamHigh == 11

\* <<epochs_per_round, number of batches of the trainset>> of the training runs
TrainConfigs == {<<0, 2>>, <<1, 0>>, <<1, 1>>, <<1, 2>>, <<2, 1>>}

\* values a received message carries
MsgValues == {7, 9}

----------------------------------------------------------------------------
(* Sequences and tensors *)

RECURSIVE SeqSum(_)
SeqSum(s) == IF s = <<>> THEN 0 ELSE Head(s) + SeqSum(Tail(s))

RECURSIVE Product(_)
Product(s) == IF s = <<>> THEN 1 ELSE Head(s) * Product(Tail(s))

RECURSIVE Concat(_)
Concat(ss) == IF ss = <<>> THEN <<>> ELSE Head(ss) \o Concat(Tail(ss))

Range(s) == {s[i] : i \in 1..Len(s)}

Abs(x) == IF x < 0 THEN -x ELSE x

\* sequences of length n over S without repetition
DistinctSeqs(S, n) == {s \in [1..n -> S] : \A i, j \in 1..n : i # j => s[i] # s[j]}

\* number of elements of a tensor of the given shape
numel(shape) == Product(shape)

\* the layouts of the torch module: name, parameter or buffer, shape
Layouts ==
    { << [name |-> "fc.weight", param |-> TRUE, shape |-> <<1, 2>>] >>,
      << [name |-> "fc.weight", param |-> TRUE, shape |-> <<2>>],
         [name |-> "fc.bias", param |-> TRUE, shape |-> <<>>] >>,
      << [name |-> "bn.weight", param |-> TRUE, shape |-> <<1>>],
         [name |-> "bn.running_mean", param |-> FALSE, shape |-> <<1>>],
         [name |-> "fc.weight", param |-> TRUE, shape |-> <<1>>] >> }

\* the freshly constructed module: every element starts at ParamLow + its offset parity
InitModel(layout) ==
    [i \in 1..Len(layout) |->
        [name |-> layout[i].name, param |-> layout[i].param, shape |-> layout[i].shape,
         data |-> [j \in 1..numel(layout[i].shape) |-> ParamLow + ((i + j) % 2)]]]

\* model.state_dict(): every registered tensor, parameters and buffers, in order
state_dict(mdl) ==
    [i \in 1..Len(mdl) |-> [key |-> mdl[i].name, shape |-> mdl[i].shape, data |-> mdl[i].data]]

IsParam(e) == e.param

\* model.parameters(): the parameters only, in the same module order
parameters(mdl) == SelectSeq(mdl, IsParam)

\* [v.flatten() for v in ...] followed by torch.cat(..., dim=0)
FlatCat(ts) == Concat([i \in 1..Len(ts) |-> ts[i].data])

----------------------------------------------------------------------------
(* GradientAccumulator.train *)

\* the index in parameters() of the parameter registered at place i of the module
ParamIndex(mdl, i) == Cardinality({j \in 1..i : mdl[j].param})

\* number of elements of all parameters
ParamNumel(mdl) == Len(FlatCat(parameters(mdl)))

\* cut a flat vector into one data sequence per tensor of ts
RECURSIVE Split(_, _)
Split(flat, ts) ==
    IF ts = <<>> THEN <<>>
    ELSE LET n == numel(Head(ts).shape)
         IN  <<SubSeq(flat, 1, n)>> \o Split(SubSeq(flat, n + 1, Len(flat)), Tail(ts))

\* loss_val.backward() after model.zero_grad(): the gradients autodiff may leave in .grad
Backward(mdl) ==
    {Split(flat, parameters(mdl)) : flat \in [1..ParamNumel(mdl) -> GradValues]}

\* { k: v.grad.clone().detach() for k, v in zip(state_dict(), parameters()) }
Snapshot(mdl, g) ==
    LET sd == state_dict(mdl)
        ps == parameters(mdl)
        n == IF Len(sd) < Len(ps) THEN Len(sd) ELSE Len(ps)
    IN  [i \in 1..n |-> [key |-> sd[i].key, shape |-> ps[i].shape, data |-> g[i]]]

Clamp(x) == IF x < ParamLow THEN ParamLow ELSE IF x > ParamHigh THEN ParamHigh ELSE x

\* optimizer.step(): gradient descent with unit learning rate, kept within the value range
OptimizerStep(mdl, g) ==
    [i \in 1..Len(mdl) |->
        IF mdl[i].param
        THEN [mdl[i] EXCEPT !.data =
                 [j \in 1..Len(mdl[i].data) |->
                     Clamp(mdl[i].data[j] - g[ParamIndex(mdl, i)][j])]]
        ELSE mdl[i]]

\* a train() that forgets to clear the list
KeepList(acc) == acc

\* the list train() starts from: self.model.accumulated_gradients = []
TrainReset(acc) == <<>>

NoRet == [op |-> "none", err |-> "none", out |-> <<>>]

\* train(), lines 38-39: fetch the trainset and reset the list
TrainStart ==
    /\ pc = "idle"
    /\ pc' = "train"
    /\ has_accumulated' = TRUE
    /\ accumulated_gradients' = TrainReset(accumulated_gradients)
    /\ epoch' = 0
    /\ count' = 0
    /\ calls' = 0
    /\ ret' = [op |-> "train", err |-> "running", out |-> <<>>]
    /\ UNCHANGED <<model, grad, alpha, epochs_per_round, trainset, inbox>>

\* train(), lines 44-59: one batch: zero_grad, forward, backward, record, step
TrainBatch ==
    /\ pc = "train"
    /\ epoch < epochs_per_round
    /\ count < trainset
    /\ \E g \in Backward(model) :
        /\ grad' = g
        /\ accumulated_gradients' =
               Append(accumulated_gradients, Snapshot(model, g))
        /\ model' = OptimizerStep(model, g)
    /\ count' = count + 1
    /\ UNCHANGED <<has_accumulated, alpha, epochs_per_round, trainset,
                   pc, epoch, calls, inbox, ret>>

\* train(), line 60: the epoch's average loss, epoch_loss / count
TrainEpochEnd ==
    /\ pc = "train"
    /\ epoch < epochs_per_round
    /\ count = trainset
    /\ IF count = 0
       THEN /\ pc' = "idle"
            /\ ret' = [op |-> "train", err |-> "ZeroDivisionError", out |-> <<>>]
            /\ UNCHANGED <<epoch, count>>
       ELSE /\ epoch' = epoch + 1
            /\ count' = 0
            /\ UNCHANGED <<pc, ret>>
    /\ UNCHANGED <<model, grad, has_accumulated, accumulated_gradients, alpha,
                   epochs_per_round, trainset, calls, inbox>>

\* train() returns once range(self.epochs_per_round) is exhausted
TrainReturn ==
    /\ pc = "train"
    /\ epoch = epochs_per_round
    /\ pc' = "idle"
    /\ ret' = [op |-> "train", err |-> "none", out |-> <<>>]
    /\ UNCHANGED <<model, grad, has_accumulated, accumulated_gradients, alpha,
                   epochs_per_round, trainset, epoch, count,
                   calls, inbox>>

----------------------------------------------------------------------------
(* PartialModel.extract_top_gradients *)

HasKey(d, key) == \E i \in 1..Len(d) : d[i].key = key

Lookup(d, key) == d[CHOOSE i \in 1..Len(d) : d[i].key = key]

\* for key in d: gradient_sum[key] += d[key]
AddDict(gradient_sum, d) ==
    [i \in 1..Len(gradient_sum) |->
        IF HasKey(d, gradient_sum[i].key)
        THEN [gradient_sum[i] EXCEPT !.data =
                 [j \in 1..Len(gradient_sum[i].data) |->
                     gradient_sum[i].data[j] + Lookup(d, gradient_sum[i].key).data[j]]]
        ELSE gradient_sum[i]]

\* gradient_sum after the loop over accumulated_gradients[1:], starting from gradient_sum
RECURSIVE SumLoop(_, _)
SumLoop(gradient_sum, rest) ==
    IF rest = <<>> THEN gradient_sum
    ELSE SumLoop(AddDict(gradient_sum, Head(rest)), Tail(rest))

\* what the name gradient_sum denotes when the loop is over
GradientSum(acc) == SumLoop(acc[1], Tail(acc))

\* the list after the loop: gradient_sum is accumulated_gradients[0] itself, and += on a
\* tensor adds in place
AfterSum(acc) == IF acc = <<>> THEN acc ELSE [acc EXCEPT ![1] = GradientSum(acc)]

\* the flattening without torch.abs
SignedFlat(d) == FlatCat(d)

\* torch.abs(torch.cat(tensors_to_cat, dim=0))
AbsFlat(d) == LET T == FlatCat(d) IN [i \in 1..Len(T) |-> Abs(T[i])]

\* Python's round(n / d) for n >= 0, d > 0: to the nearest integer, a tie to the even one
PyRound(n, d) ==
    LET q == n \div d
        r == n % d
    IN  IF 2 * r < d THEN q
        ELSE IF 2 * r > d THEN q + 1
        ELSE IF q % 2 = 0 THEN q ELSE q + 1

\* round(self.alpha * G_topk.shape[0])
TopCount(a, n) == PyRound(a * n, AlphaDen)

\* torch.topk(G, k, dim=0, sorted=False): k positions holding the k largest values, in
\* any order and with any choice among equal values; (values, indices)
topk(G, k) ==
    {[values |-> [j \in 1..k |-> G[ix[j] + 1]], indices |-> ix] :
        ix \in {s \in DistinctSeqs(0..(Len(G) - 1), k) :
                   \A i \in Range(s) : \A j \in (0..(Len(G) - 1)) \ Range(s) :
                       G[i + 1] >= G[j + 1]}}

\* an extract_top_gradients that answers an empty list with an empty selection
ExtractOrEmpty(has, acc, a) ==
    IF ~has \/ ~(Len(acc) > 0)
    THEN {[err |-> "none", out |-> [values |-> <<>>, indices |-> <<>>]]}
    ELSE LET G_topk == AbsFlat(GradientSum(acc))
         IN  {[err |-> "none", out |-> r] : r \in topk(G_topk, TopCount(a, Len(G_topk)))}

\* extract_top_gradients: the outcomes [err, out] of a call.  The attribute is missing
\* before the first train(); the assertion of line 67 fails on an empty list
extract_top_gradients(has, acc, a) ==
    IF ~has THEN {[err |-> "AttributeError", out |-> <<>>]}
    ELSE IF ~(Len(acc) > 0) THEN {[err |-> "AssertionError", out |-> <<>>]}
    ELSE LET G_topk == AbsFlat(GradientSum(acc))
         IN  {[err |-> "none", out |-> r] : r \in topk(G_topk, TopCount(a, Len(G_topk)))}

\* a direct call of extract_top_gradients
ExtractTopGradients ==
    /\ pc = "idle"
    /\ calls < MaxCalls
    /\ \E o \in extract_top_gradients(has_accumulated, accumulated_gradients, alpha) :
        /\ ret' = [op |-> "extract_top_gradients", err |-> o.err, out |-> o.out]
        /\ IF o.err = "none"
           THEN /\ accumulated_gradients' = AfterSum(accumulated_gradients)
                /\ calls' = calls + 1
           ELSE UNCHANGED <<accumulated_gradients, calls>>
    /\ UNCHANGED <<model, grad, has_accumulated, alpha, epochs_per_round, trainset,
                   pc, epoch, count, inbox>>

----------------------------------------------------------------------------
(* PartialModel.serialized_model *)

dict_ordered == TRUE

\* json.dumps of one number: an int as its digits, a float with a fraction
JsonNumber(x, isFloat) == IF isFloat THEN ToString(x) \o ".0" ELSE ToString(x)

\* json.dumps of a list of numbers, as its tokens
json_dumps(xs, isFloat) ==
    <<"[">> \o
    Concat([i \in 1..Len(xs) |->
               IF i = 1 THEN <<JsonNumber(xs[i], isFloat)>>
               ELSE <<",", JsonNumber(xs[i], isFloat)>>]) \o
    <<"]">>

\* T[G_topk]: the elements of T at the given positions
Gather(T, ix) == [j \in 1..Len(ix) |-> T[ix[j] + 1]]

\* a message that carries the summed gradient at the selected positions
MessageOfGradients(mdl, G_topk) ==
    LET T == FlatCat(GradientSum(accumulated_gradients))
        T_topk == Gather(T, G_topk)
    IN  [indices |-> json_dumps(G_topk, FALSE), params |-> json_dumps(T_topk, TRUE)]

\* the dictionary serialized_model returns for the selected positions
Message(mdl, G_topk) ==
    LET T == FlatCat(parameters(mdl))
        T_topk == Gather(T, G_topk)
    IN  [indices |-> json_dumps(G_topk, FALSE), params |-> json_dumps(T_topk, TRUE)]

\* serialized_model: the outcomes [err, out] of a call, given those of
\* extract_top_gradients.  The diagnostic file of lines 84-101 is written and never read
\* back; it is left out
serialized_model(mdl, has, acc, a) ==
    {IF o.err # "none" THEN o
     ELSE IF ~dict_ordered THEN [err |-> "NotImplementedError", out |-> <<>>]
     ELSE [err |-> "none", out |-> Message(mdl, o.out.indices)] :
        o \in extract_top_gradients(has, acc, a)}

SerializedModel ==
    /\ pc = "idle"
    /\ calls < MaxCalls
    /\ \E o \in serialized_model(model, has_accumulated, accumulated_gradients, alpha) :
        /\ ret' = [op |-> "serialized_model", err |-> o.err, out |-> o.out]
        /\ IF o.err \in {"none", "NotImplementedError"}
           THEN /\ accumulated_gradients' = AfterSum(accumulated_gradients)
                /\ calls' = calls + 1
           ELSE UNCHANGED <<accumulated_gradients, calls>>
    /\ UNCHANGED <<model, grad, has_accumulated, alpha, epochs_per_round, trainset,
                   pc, epoch, count, inbox>>

----------------------------------------------------------------------------
(* The sending side: training rounds and the messages built after them *)

NoMessage == [indices |-> <<>>, params |-> <<>>]

\* the history of a node that has installed no update yet, for a state of n elements
NoHistory(n) == [wf |-> TRUE, over |-> FALSE, last |-> [p \in 1..n |-> <<>>]]

Init ==
    /\ \E layout \in Layouts : model = InitModel(layout)
    /\ grad = <<>>
    /\ has_accumulated = FALSE
    /\ accumulated_gradients = <<>>
    /\ alpha \in 1..AlphaDen
    /\ \E c \in TrainConfigs : epochs_per_round = c[1] /\ trainset = c[2]
    /\ pc = "idle"
    /\ epoch = 0
    /\ count = 0
    /\ calls = 0
    /\ inbox = NoMessage
    /\ ret = NoRet
    /\ issued = <<>>
    /\ arrived = NoHistory(0)

Next ==
    \/ TrainStart /\ issued' = <<>> /\ UNCHANGED arrived
    \/ TrainBatch /\ issued' = Append(issued, grad') /\ UNCHANGED arrived
    \/ TrainEpochEnd /\ UNCHANGED <<issued, arrived>>
    \/ TrainReturn /\ UNCHANGED <<issued, arrived>>
    \/ ExtractTopGradients /\ UNCHANGED <<issued, arrived>>
    \/ SerializedModel /\ UNCHANGED <<issued, arrived>>

Spec == Init /\ [][Next]_vars

----------------------------------------------------------------------------
(* PartialModel.deserialized_model *)

\* the numbers a JSON token of the model may denote
JsonDomain == -10..13

\* json.loads of one number token: its value, and whether it is a float
JsonTokens == [r \in [float : BOOLEAN, val : JsonDomain] |-> JsonNumber(r.val, r.float)]

ParseNumber(tok) == CHOOSE r \in DOMAIN JsonTokens : JsonTokens[r] = tok

\* json.loads of the tokens of a list of numbers
json_loads(toks) == <<>> \o [j \in 1..((Len(toks) - 1) \div 2) |-> ParseNumber(toks[2 * j])]

\* torch.tensor(list): int64 for a non-empty list of ints, float32 otherwise (the
\* default dtype, also of an empty list)
torch_tensor(xs) ==
    [dtype |-> IF xs # <<>> /\ \A j \in 1..Len(xs) : ~xs[j].float
               THEN "int64" ELSE "float32",
     data |-> <<>> \o [j \in 1..Len(xs) |-> xs[j].val]]

\* the position an index denotes in a vector of length n: a negative one counts from the end
Wrap(i, n) == IF i < 0 THEN i + n ELSE i

\* the values index_put_ may leave at position p: the old one when p is not listed, else
\* any value listed for p; a single value is broadcast to every listed position
PutChoices(T, ix, value, p) ==
    LET hits == {h \in 1..Len(ix) : Wrap(ix[h], Len(T)) = p}
    IN  IF hits = {} THEN {T[p + 1]}
        ELSE {IF Len(value) = 1 THEN value[1] ELSE value[h] : h \in hits}

\* T[index_tensor] = value: the vectors index_put_ may leave, built from position p on
RECURSIVE PutFrom(_, _, _, _)
PutFrom(T, ix, value, p) ==
    IF p >= Len(T) THEN {<<>>}
    ELSE {<<v>> \o rest : v \in PutChoices(T, ix, value, p), rest \in PutFrom(T, ix, value, p + 1)}

IndexPut(T, ix, value) == PutFrom(T, ix, value, 0)

\* a rebuild that never advances start_index: every piece is cut from the front of T
RebuildFromStart(sd, T) ==
    [i \in 1..Len(sd) |->
        [key |-> sd[i].key, shape |-> sd[i].shape,
         data |-> SubSeq(T, 1, numel(sd[i].shape))]]

\* the loop of lines 152-156: cut T by lens and reshape each piece to its shape
Rebuild(sd, T) ==
    LET pieces == Split(T, sd)
    IN  [i \in 1..Len(sd) |-> [key |-> sd[i].key, shape |-> sd[i].shape, data |-> pieces[i]]]

\* deserialized_model(m): the outcomes [err, out] of a call
deserialized_model(mdl, m) ==
    LET sd == state_dict(mdl)
        T == FlatCat(sd)
        index_tensor == torch_tensor(json_loads(m.indices))
        value == torch_tensor(json_loads(m.params))
    IN  IF ~dict_ordered THEN {[err |-> "NotImplementedError", out |-> <<>>]}
        ELSE IF index_tensor.dtype # "int64"
        THEN {[err |-> "IndexError", out |-> <<>>]}
        ELSE IF \E j \in 1..Len(index_tensor.data) :
                    index_tensor.data[j] < -Len(T) \/ index_tensor.data[j] >= Len(T)
        THEN {[err |-> "IndexError", out |-> <<>>]}
        ELSE IF Len(value.data) # Len(index_tensor.data) /\ Len(value.data) # 1
        THEN {[err |-> "RuntimeError", out |-> <<>>]}
        ELSE {[err |-> "none", out |-> Rebuild(sd, R)] :
                 R \in IndexPut(T, index_tensor.data, value.data)}

\* total number of elements of the state collection
StateNumel(mdl) == Len(FlatCat(state_dict(mdl)))

\* the indices a message may carry for a state of n elements: in range, negative, and
\* out of range on both sides
IndexDomain(n) == {-(n + 1), -1} \cup 0..n

SeqsUpTo(S, n) == UNION {[1..h -> S] : h \in 0..n}

\* the sizes of the states of the layouts
StateSizes == {StateNumel(InitModel(layout)) : layout \in Layouts}

\* per state size n, the messages the transport may deliver to a node of that size:
\* every list of up to MaxMsgLen indices with every list of up to MaxMsgLen values
MessageTable ==
    [n \in StateSizes |->
        {[indices |-> json_dumps(ix, FALSE), params |-> json_dumps(ps, TRUE)] :
            ix \in SeqsUpTo(IndexDomain(n), MaxMsgLen), ps \in SeqsUpTo(MsgValues, MaxMsgLen)}]

Messages(n) == MessageTable[n]

\* deserialized_model(m) on a message m handed over by the transport
DeserializedModel ==
    /\ pc = "idle"
    /\ \E m \in Messages(StateNumel(model)) :
        /\ inbox' = m
        /\ \E o \in deserialized_model(model, m) :
            ret' = [op |-> "deserialized_model", err |-> o.err, out |-> o.out]
    /\ pc' = "merged"
    /\ UNCHANGED <<model, grad, has_accumulated, accumulated_gradients, alpha,
                   epochs_per_round, trainset, epoch, count, calls>>

\* the returned collection becomes the node's state
load_state_dict(mdl, sd) ==
    [i \in 1..Len(mdl) |-> [mdl[i] EXCEPT !.data = Lookup(sd, mdl[i].name).data]]

\* the merge result is installed as the local state before the next message
Install ==
    /\ pc = "merged"
    /\ ret.err = "none"
    /\ model' = load_state_dict(model, ret.out)
    /\ pc' = "idle"
    /\ inbox' = NoMessage
    /\ ret' = NoRet
    /\ UNCHANGED <<grad, has_accumulated, accumulated_gradients, alpha, epochs_per_round,
                   trainset, epoch, count, calls>>

\* the error raised by deserialized_model leaves it; the state is as before the call
Raise ==
    /\ pc = "merged"
    /\ ret.err # "none"
    /\ pc' = "idle"
    /\ inbox' = NoMessage
    /\ ret' = NoRet
    /\ UNCHANGED <<model, grad, has_accumulated, accumulated_gradients, alpha,
                   epochs_per_round, trainset, epoch, count, calls>>

----------------------------------------------------------------------------
(* The receiving side: messages from the transport, merged one at a time *)

\* a decoded message is well-formed: equal lengths, indices distinct and within [0, n)
WellFormed(ix, ps, n) ==
    /\ Len(ix) = Len(ps)
    /\ \A j \in 1..Len(ix) : ix[j] >= 0 /\ ix[j] < n
    /\ \A i, j \in 1..Len(ix) : i # j => ix[i] # ix[j]

Decoded(toks) == LET xs == json_loads(toks) IN <<>> \o [j \in 1..Len(xs) |-> xs[j].val]

\* the history after the update (ix, ps) is installed: per position the value of the last
\* update that lists it; over: an update replaced the value of an earlier one
Arrive(h, ix, ps) ==
    IF ~h.wf \/ ~WellFormed(ix, ps, Len(h.last)) THEN [NoHistory(Len(h.last)) EXCEPT !.wf = FALSE]
    ELSE LET listed(p) == {j \in 1..Len(ix) : ix[j] = p - 1}
         IN  [wf |-> TRUE,
              over |-> h.over \/ \E p \in 1..Len(h.last) : \E j \in listed(p) :
                           h.last[p] # <<>> /\ h.last[p] # <<ps[j]>>,
              last |-> [p \in 1..Len(h.last) |->
                           IF listed(p) = {} THEN h.last[p]
                           ELSE <<ps[CHOOSE j \in listed(p) : TRUE]>>]]

InitRecv ==
    /\ \E layout \in Layouts : model = InitModel(layout)
    /\ grad = <<>>
    /\ has_accumulated = FALSE
    /\ accumulated_gradients = <<>>
    /\ alpha = AlphaDen
    /\ epochs_per_round = 1
    /\ trainset = 1
    /\ pc = "idle"
    /\ epoch = 0
    /\ count = 0
    /\ calls = 0
    /\ inbox = NoMessage
    /\ ret = NoRet
    /\ issued = <<>>
    /\ arrived = NoHistory(StateNumel(model))

NextRecv ==
    \/ DeserializedModel /\ UNCHANGED <<issued, arrived>>
    \/ Install /\ arrived' = Arrive(arrived, Decoded(inbox.indices), Decoded(inbox.params))
               /\ UNCHANGED issued
    \/ Raise /\ UNCHANGED <<issued, arrived>>

SpecRecv == InitRecv /\ [][NextRecv]_vars

----------------------------------------------------------------------------
(* Properties of the sending side, checked under Spec *)

\* per flat position of a collection, the name of the array and the offset within it
Labels(d) ==
    Concat([i \in 1..Len(d) |-> [j \in 1..Len(d[i].data) |-> <<d[i].key, j - 1>>]])

\* parameters() with the name each parameter is registered under
NamedParameters(mdl) ==
    LET ps == parameters(mdl)
    IN  [i \in 1..Len(ps) |-> [key |-> ps[i].name, data |-> ps[i].data]]

\* C1: once a message has been built, the flattening of the summed gradient, that of the
\* parameters and that of the state collection have the same length and give every flat
\* position the same name and offset
C1_SameFlattening ==
    (ret.op = "serialized_model" /\ ret.err = "none") =>
        /\ Labels(accumulated_gradients[1]) = Labels(NamedParameters(model))
        /\ Labels(NamedParameters(model)) = Labels(state_dict(model))

\* C3: a returned message has exactly the fields indices and params, of equal length, and
\* params[j] is the sender's current parameter at flat position indices[j]
C3_MessageCarriesParams ==
    (ret.op = "serialized_model" /\ ret.err = "none") =>
        /\ DOMAIN ret.out = {"indices", "params"}
        /\ LET ix == Decoded(ret.out.indices)
               ps == Decoded(ret.out.params)
               T == FlatCat(parameters(model))
           IN  /\ Len(ix) = Len(ps)
               /\ \A j \in 1..Len(ix) : ix[j] \in 0..(Len(T) - 1) /\ ps[j] = T[ix[j] + 1]

\* a message that carries some but not all positions, after two deltas were recorded
C3_Witness ==
    /\ ret.op = "serialized_model" /\ ret.err = "none"
    /\ Len(accumulated_gradients) = 2
    /\ Len(Decoded(ret.out.indices)) > 0
    /\ Len(Decoded(ret.out.indices)) < ParamNumel(model)

\* the sum over the list acc of the element at flat position p
SumAt(acc, p) == SeqSum([i \in 1..Len(acc) |-> FlatCat(acc[i])[p + 1]])

\* ix holds the top round(a / AlphaDen * N) positions of the sum of the list acc
IsTopK(acc, a, ix) ==
    LET N == Len(FlatCat(acc[1]))
        k == Len(ix)
        twice == 2 * Abs(k * AlphaDen - a * N)
    IN  /\ twice <= AlphaDen
        /\ twice = AlphaDen => k % 2 = 0
        /\ \A j \in 1..k : ix[j] \in 0..(N - 1)
        /\ \A i, j \in 1..k : i # j => ix[i] # ix[j]
        /\ \A i \in Range(ix) : \A j \in (0..(N - 1)) \ Range(ix) :
               Abs(SumAt(acc, i)) >= Abs(SumAt(acc, j))
        /\ a = AlphaDen => Range(ix) = 0..(N - 1)

\* C4: a call of extract_top_gradients on a non-empty list returns round(alpha * N)
\* distinct positions of [0, N) whose summed deltas are, in absolute value, at least those
\* of every position it leaves out; all of [0, N) when alpha is 1
C4_TopK ==
    [][(ret'.op = "extract_top_gradients" /\ ret'.err = "none") =>
           IsTopK(accumulated_gradients, alpha, ret'.out.indices)]_vars

\* a proper selection out of the sum of two deltas, one of them negative at a chosen place
C4_Witness ==
    /\ ret.op = "extract_top_gradients" /\ ret.err = "none"
    /\ Len(accumulated_gradients) = 2
    /\ Len(ret.out.indices) > 0
    /\ Len(ret.out.indices) < Len(FlatCat(accumulated_gradients[1]))
    /\ \E j \in 1..Len(ret.out.indices) :
           FlatCat(accumulated_gradients[1])[ret.out.indices[j] + 1] < 0

\* C8: extract_top_gradients and serialized_model called on an empty list fail with an
\* error and return nothing
C8_EmptyFails ==
    (/\ ret.op \in {"extract_top_gradients", "serialized_model"}
     /\ (~has_accumulated \/ accumulated_gradients = <<>>)) =>
        (ret.err # "none" /\ ret.out = <<>>)

\* serialized_model called after a train() that reset the list and recorded nothing
C8_Witness ==
    /\ ret.op = "serialized_model"
    /\ has_accumulated
    /\ accumulated_gradients = <<>>
    /\ ret.err = "AssertionError"

\* C9: when train() has returned, the list holds epochs_per_round times the number of
\* batches snapshots, and they are the gradients backward left in this call, in order
C9_TrainRecords ==
    (ret.op = "train" /\ ret.err = "none") =>
        /\ Len(accumulated_gradients) = epochs_per_round * trainset
        /\ Len(accumulated_gradients) = Len(issued)
        /\ \A i \in 1..Len(accumulated_gradients) :
               /\ Len(accumulated_gradients[i]) = Len(parameters(model))
               /\ \A j \in 1..Len(accumulated_gradients[i]) :
                      accumulated_gradients[i][j].data = issued[i][j]

\* a train() of two epochs of one batch has returned with two different snapshots
C9_Witness ==
    /\ ret.op = "train" /\ ret.err = "none"
    /\ epochs_per_round = 2
    /\ Len(accumulated_gradients) = 2
    /\ accumulated_gradients[1] # accumulated_gradients[2]

\* C10: summing leaves every recorded delta as backward issued it, so that a further call
\* in the same round sums to the same accumulated delta
C10_SumLeavesDeltas ==
    (pc = "idle" /\ ret.op \in {"extract_top_gradients", "serialized_model"}
        /\ ret.err = "none") =>
        /\ \A i \in 1..Len(accumulated_gradients) :
               \A j \in 1..Len(accumulated_gradients[i]) :
                   accumulated_gradients[i][j].data = issued[i][j]
        /\ \A p \in 0..(ParamNumel(model) - 1) :
               FlatCat(GradientSum(accumulated_gradients))[p + 1] =
                   SeqSum([i \in 1..Len(issued) |-> Concat(issued[i])[p + 1]])

----------------------------------------------------------------------------
(* Properties of the receiving side, checked under SpecRecv *)

\* the layout a module was built from
LayoutOf(mdl) ==
    [i \in 1..Len(mdl) |-> [name |-> mdl[i].name, param |-> mdl[i].param, shape |-> mdl[i].shape]]

\* the returned collection has the names, order and shapes of the local state, holds
\* ps[j] at flat position ix[j] and the local value everywhere else
Merged(mdl, out, ix, ps) ==
    LET sd == state_dict(mdl)
        T == FlatCat(sd)
        R == FlatCat(out)
    IN  /\ Len(out) = Len(sd)
        /\ \A i \in 1..Len(sd) :
               /\ out[i].key = sd[i].key
               /\ out[i].shape = sd[i].shape
               /\ Len(out[i].data) = numel(sd[i].shape)
        /\ \A j \in 1..Len(ix) : R[ix[j] + 1] = ps[j]
        /\ \A p \in (0..(Len(T) - 1)) \ Range(ix) : R[p + 1] = T[p + 1]

\* C2: deserialized_model of a well-formed message returns the local state with params[j]
\* at flat position indices[j] and every other position as before
C2_MergeWellFormed ==
    (pc = "merged" /\ WellFormed(Decoded(inbox.indices), Decoded(inbox.params),
                                 StateNumel(model))) =>
        /\ ret.err = "none"
        /\ Merged(model, ret.out, Decoded(inbox.indices), Decoded(inbox.params))

\* C5: after well-formed updates were merged and installed one at a time, every flat
\* position holds the value of the last update that lists it, and its initial value when
\* none does
C5_LastWriteWins ==
    arrived.wf =>
        LET T == FlatCat(state_dict(model))
            T0 == FlatCat(state_dict(InitModel(LayoutOf(model))))
        IN  \A p \in 1..Len(T) :
                T[p] = IF arrived.last[p] = <<>> THEN T0[p] ELSE arrived.last[p][1]

\* a later update has replaced the value of an earlier one, another position is untouched
C5_Witness ==
    /\ pc = "idle"
    /\ arrived.wf
    /\ arrived.over
    /\ \E p \in 1..Len(arrived.last) : arrived.last[p] = <<>>
    /\ \E p \in 1..Len(arrived.last) : arrived.last[p] = <<7>>

\* C6: a message whose indices and params differ in length is rejected: no error leaves
\* deserialized_model and the collection it hands back is the local state, unchanged
C6_RejectsUnequalLengths ==
    (pc = "merged" /\ Len(Decoded(inbox.indices)) # Len(Decoded(inbox.params))) =>
        (ret.err = "none" /\ FlatCat(ret.out) = FlatCat(state_dict(model)))

\* C7: a message with an index outside [0, N) is rejected: no error leaves
\* deserialized_model and no value is written into the local state
C7_RejectsInvalidIndex ==
    (pc = "merged" /\ \E j \in 1..Len(Decoded(inbox.indices)) :
                          \/ Decoded(inbox.indices)[j] < 0
                          \/ Decoded(inbox.indices)[j] >= StateNumel(model)) =>
        (ret.err = "none" /\ FlatCat(ret.out) = FlatCat(state_dict(model)))

====
